---- MODULE Spec2Model ----
(***************************************************************************)
(* A model of track.py, the daily whereabouts report.  main() runs six     *)
(* stages in sequence inside one try block: verify_paths, fetch_plot_data, *)
(* append_csv_and_plots (with one query_geocode per point),                *)
(* fetch_map_image, generate_pdf and copy_files_to_destination.  Every     *)
(* I/O step of a stage is one action, so that a failure can be placed      *)
(* between any two of them.  The staging directory and the destination     *)
(* directories are modelled by the files they hold and their contents.     *)
(* The run is modelled with verbose = False.                               *)
(***************************************************************************)
EXTENDS Integers, Sequences, FiniteSets, TLC

\* ------------------------------------------------------------------ bounds
\* Longest point sequence the tracking service returns in the model.
MaxPoints == 2
\* Largest number of configured destination directories (paths.targets).
MaxTargets == 3

\* ------------------------------------------------------------- data values
\* Point records as the tracking service returns them.  Latitude and
\* Longitude are in units of 1e-5 degree.  The third point carries a Date
\* that dateutil cannot parse.
TrackPoints ==
  { [Date |-> "2023-06-01T08:00:00", Latitude |-> 4012346, Longitude |-> 8965432,
     Speed |-> "3.5", Accuracy |-> 10, Type |-> "GPS"],
    [Date |-> "2023-06-01T20:15:00", Latitude |-> 4123454, Longitude |-> 8876548,
     Speed |-> "0", Accuracy |-> 25, Type |-> "Network"],
    [Date |-> "not a date", Latitude |-> 4200000, Longitude |-> 8800000,
     Speed |-> "1", Accuracy |-> 5, Type |-> "GPS"] }

\* All sequences over S of length at most n.
SeqsUpTo(S, n) == UNION { [1..k -> S] : k \in 0..n }

\* What fetch_plot_data can get back from the tracking service: a body with
\* a Data list, a body without one, or a failed request.
TrackResponses ==
  { [kind |-> "json", body |-> [Data |-> pts]] : pts \in SeqsUpTo(TrackPoints, MaxPoints) }
    \cup { [kind |-> "json", body |-> [Error |-> "invalid key"]] }
    \cup { [kind |-> "neterr"] }

\* What query_geocode can get back from the geocoding service.
GeoResponses ==
  { [kind |-> "json",
     body |-> [status |-> "OK",
               results |-> [list |-> << [formatted_address |->
                                           "123 Main St, Springfield, IL 62701, USA"] >>]]],
    [kind |-> "json", body |-> [status |-> "ZERO_RESULTS", results |-> [list |-> << >>]]],
    [kind |-> "json",
     body |-> [status |-> "OK", results |-> [list |-> << [place_id |-> "abc"] >>]]],
    [kind |-> "json", body |-> [status |-> "OK", results |-> [str |-> "none"]]],
    [kind |-> "json", body |-> [status |-> "REQUEST_DENIED", error_message |-> "bad key"]],
    [kind |-> "neterr"] }

\* Exceptions.  args is e.args, each argument in its printed form.
NoExc == [type |-> "none", args |-> << >>, stage |-> "none"]
URLError == [type |-> "URLError", args |-> << "timed out" >>]
MemoryError == [type |-> "MemoryError", args |-> << >>]
OSError == [type |-> "OSError", args |-> << "13", "Permission denied" >>]
\* os.unlink of a file that is no longer there.
UnlinkError == [type |-> "OSError", args |-> << "2", "No such file or directory" >>]
KeyErrorResults == [type |-> "KeyError", args |-> << "results" >>]
TypeErrorNone == [type |-> "TypeError", args |-> << "'NoneType' object is not iterable" >>]
ValueErrorDate == [type |-> "ValueError", args |-> << "Unknown string format" >>]
PdfError == [type |-> "IOError", args |-> << "wkhtmltopdf reported an error" >>]

\* A read of a network response can fail in the transport or run out of memory.
NetworkErrors == { URLError, MemoryError }

\* The stages of main(), in the order of the try block.
Stages == << "verify_paths", "fetch_plot_data", "append_csv_and_plots",
             "fetch_map_image", "generate_pdf", "copy_files_to_destination" >>

\* File contents.
Absent == [kind |-> "absent"]
Old == [kind |-> "old"]
Partial == [kind |-> "partial"]
NoneValue == [none |-> TRUE]

TmpFiles == { "csv", "png", "html", "pdf" }
TargetFiles == << "named_pdf", "today_pdf", "named_csv" >>

VARIABLES
  pc,        \* position of the run
  targets,   \* config['paths']['targets'], as the set of their indices
  dirs,      \* the directories that exist
  results,   \* what fetch_plot_data returned
  tmp,       \* the files of the staging directory and their contents
  created,   \* the staging files this run has created so far
  dest,      \* the report files of each destination directory
  dest0,     \* the report files of each destination directory before the run
  i,         \* index of the row append_csv_and_plots is working on
  geoResp,   \* the geocode responses received so far, in order
  log,       \* the pauses, requests and responses of query_geocode, in order
  inflight,  \* number of geocode requests sent and not yet answered
  d,         \* index of the destination copy_files_to_destination is at
  c,         \* index in TargetFiles of the next copy in that destination
  started,   \* the stages main() has entered, in order
  exc,       \* the exception raised out of a stage, if any
  printed,   \* what the except clause printed
  exit       \* exit status of the process; -1 while it runs

vars == << pc, targets, dirs, results, tmp, created, dest, dest0, i, geoResp,
           log, inflight, d, c, started, exc, printed, exit >>


\* ------------------------------------------------------------ pure helpers
IsNone(v) == "none" \in DOMAIN v

\* dateutil.parser.parse, on the Date strings of TrackPoints: the parsed
\* date-time, or a ValueError.
ParseTable ==
  [s \in {"2023-06-01T08:00:00", "2023-06-01T20:15:00"} |->
     IF s = "2023-06-01T08:00:00"
       THEN [Y |-> 2023, m |-> 6, d |-> 1, H |-> 8, M |-> 0, S |-> 0]
       ELSE [Y |-> 2023, m |-> 6, d |-> 1, H |-> 20, M |-> 15, S |-> 0]]

ParseOk(s) == s \in DOMAIN ParseTable

\* plot_date.strftime("%Y-%m-%d %I:%M:%S %p"): 12-hour clock with AM/PM.
strftime(t) ==
  << t.Y, t.m, t.d, (IF t.H % 12 = 0 THEN 12 ELSE t.H % 12), t.M, t.S,
     (IF t.H < 12 THEN "AM" ELSE "PM") >>

\* "%.4f" % x, for x in units of 1e-5 degree: the value in units of 1e-4,
\* rounded to nearest.
Fmt4(x) == (x + 5) \div 10

\* s[:-5]
Trim5(s) == IF Len(s) <= 5 THEN "" ELSE SubSeq(s, 1, Len(s) - 5)

\* Lines 245-249 of query_geocode: the address taken from the `results`
\* value of a response.
formatted_address(addr) ==
  IF "list" \in DOMAIN addr
    THEN IF Len(addr.list) > 0 /\ "formatted_address" \in DOMAIN addr.list[1]
           THEN Trim5(addr.list[1].formatted_address)
           ELSE ""
    ELSE ""

\* query_geocode as a version that indexes the first result without looking
\* at the length of the list.
IndexError == [type |-> "IndexError", args |-> << "list index out of range" >>]
query_geocode_result_unchecked(body) ==
  IF "results" \notin DOMAIN body
    THEN [ok |-> FALSE, exc |-> KeyErrorResults, address |-> ""]
    ELSE IF "list" \in DOMAIN body.results /\ Len(body.results.list) = 0
      THEN [ok |-> FALSE, exc |-> IndexError, address |-> ""]
      ELSE [ok |-> TRUE, exc |-> NoExc, address |-> formatted_address(body.results)]

\* query_geocode, lines 243-249: what the function does with a decoded
\* response body: a KeyError when the body has no `results`, else the address.
query_geocode_result(body) ==
  IF "results" \notin DOMAIN body
    THEN [ok |-> FALSE, exc |-> KeyErrorResults, address |-> ""]
    ELSE [ok |-> TRUE, exc |-> NoExc, address |-> formatted_address(body.results)]

Header == << "Date", "Lat", "Lon", "Speed (mph)", "Accuracy", "Type", "Address" >>

\* The row append_csv_and_plots writes for a point and its address.
CsvRow(row, address) ==
  << strftime(ParseTable[row.Date]), ToString(row.Latitude), ToString(row.Longitude),
     row.Speed, ToString(row.Accuracy), row.Type, address >>

\* writerow as a writer that puts each new row right after the header.
writerow_newest_first(rows, row) == << rows[1], row >> \o Tail(rows)

\* writer.writerow on the rows already in the file.
writerow(rows, row) == Append(rows, row)

\* The marker list fetch_map_image appends to the map URL.
Markers(pts) == [k \in 1..Len(pts) |-> << Fmt4(pts[k].Latitude), Fmt4(pts[k].Longitude) >>]

\* The HTML table generate_pdf builds from the rows read back from the CSV.
Html(rows) ==
  [kind |-> "html",
   img  |-> "png",
   head |-> rows[1],
   body |-> [k \in 1..(Len(rows) - 1) |->
               [class |-> IF k % 2 = 0 THEN "even" ELSE "", cells |-> rows[k + 1]]]]

\* The directory verify_paths looks at in k-th place: the staging directory,
\* then each target and its csv subdirectory.
DirAt(k) ==
  IF k = 1 THEN << "tmp", 0 >>
  ELSE IF k % 2 = 0 THEN << "target", k \div 2 >>
  ELSE << "csv", (k - 1) \div 2 >>

NumTargets == Cardinality(targets)

AllDirs == { DirAt(k) : k \in 1..(2 * NumTargets + 1) }

NoFiles == [f \in {"named_pdf", "today_pdf", "named_csv"} |-> Absent]

\* ------------------------------------------------------------------- Init
\* Before the run the staging directory may or may not exist, and each
\* target either does not exist yet or holds the report files of an earlier
\* run (the dated PDF and CSV of the same day, and ~Today.pdf).
Init ==
  /\ \E n \in 0..MaxTargets :
       \E reported \in SUBSET (1..n) :
         \E tmpdir \in BOOLEAN :
           /\ targets = 1..n
           /\ dirs = (IF tmpdir THEN { << "tmp", 0 >> } ELSE {})
                       \cup { << "target", t >> : t \in reported }
                       \cup { << "csv", t >> : t \in reported }
           /\ dest = [t \in 1..n |->
                        IF t \in reported THEN [f \in DOMAIN NoFiles |-> Old] ELSE NoFiles]
  /\ dest0 = dest
  /\ pc = "verify_paths"
  /\ results = NoneValue
  /\ tmp = [f \in TmpFiles |-> Absent]
  /\ created = {}
  /\ i = 1
  /\ geoResp = << >>
  /\ log = << >>
  /\ inflight = 0
  /\ d = 1
  /\ c = 1
  /\ started = << >>
  /\ exc = NoExc
  /\ printed = << >>
  /\ exit = -1

\* An exception e leaves the stage: control passes to the except clause.
Raise(e, stage) ==
  /\ pc' = "except"
  /\ exc' = [type |-> e.type, args |-> e.args, stage |-> stage]

\* ---------------------------------------------------------------- actions
\* verify_paths: create the staging directory, every target and its csv
\* subdirectory where missing.  os.makedirs can fail on any missing one,
\* and the directories before it have been created by then.
verify_paths ==
  /\ pc = "verify_paths"
  /\ started' = Append(started, "verify_paths")
  /\ \/ /\ dirs' = dirs \cup AllDirs
        /\ pc' = "fetch_plot_data"
        /\ exc' = exc
     \/ \E k \in 1..(2 * NumTargets + 1) :
          /\ DirAt(k) \notin dirs
          /\ dirs' = dirs \cup { DirAt(j) : j \in 1..(k - 1) }
          /\ Raise(OSError, "verify_paths")
  /\ UNCHANGED << targets, dest0, results, tmp, created, dest, i, geoResp, log,
                  inflight, d, c, printed, exit >>

\* fetch_plot_data: read and parse the tracking response; the Data list if
\* there is one, else None.
fetch_plot_data ==
  /\ pc = "fetch_plot_data"
  /\ started' = Append(started, "fetch_plot_data")
  /\ \E r \in TrackResponses :
       IF r.kind = "neterr"
         THEN /\ \E e \in NetworkErrors : Raise(e, "fetch_plot_data")
              /\ results' = results
         ELSE /\ results' = IF "Data" \in DOMAIN r.body
                              THEN [list |-> r.body.Data]
                              ELSE NoneValue
              /\ pc' = "append_csv_and_plots"
              /\ exc' = exc
  /\ UNCHANGED << targets, dest0, dirs, tmp, created, dest, i, geoResp, log,
                  inflight, d, c, printed, exit >>

\* append_csv_and_plots, lines 190-202: open the staging CSV and write the
\* header row.
append_csv_and_plots ==
  /\ pc = "append_csv_and_plots"
  /\ started' = Append(started, "append_csv_and_plots")
  /\ \/ /\ tmp' = [tmp EXCEPT !.csv = [kind |-> "csv", rows |-> << Header >>]]
        /\ created' = created \cup {"csv"}
        /\ i' = 1
        /\ pc' = "csv_loop"
        /\ exc' = exc
     \/ /\ Raise(OSError, "append_csv_and_plots")
        /\ UNCHANGED << tmp, created, i >>
  /\ UNCHANGED << targets, dest0, dirs, results, dest, geoResp, log, inflight, d, c,
                  printed, exit >>

\* append_csv_and_plots, lines 204-205 and 219: the head of the row loop.
\* Iterating None raises; after the last row the file is closed and the
\* function returns; otherwise the row's Date is parsed.
append_csv_and_plots_row ==
  /\ pc = "csv_loop"
  /\ IF IsNone(results)
       THEN Raise(TypeErrorNone, "append_csv_and_plots")
       ELSE IF i > Len(results.list)
         THEN pc' = "fetch_map_image" /\ exc' = exc
         ELSE IF ~ParseOk(results.list[i].Date)
           THEN Raise(ValueErrorDate, "append_csv_and_plots")
           ELSE pc' = "query_geocode" /\ exc' = exc
  /\ UNCHANGED << targets, dest0, dirs, results, tmp, created, dest, i, geoResp, log,
                  inflight, d, c, started, printed, exit >>

\* query_geocode as a version that pauses before the first request only.
query_geocode_sleep_once ==
  /\ pc = "query_geocode"
  /\ log' = IF i = 1 THEN Append(log, "pause") ELSE log
  /\ pc' = "urlopen"
  /\ UNCHANGED << targets, dest0, dirs, results, tmp, created, dest, i, geoResp,
                  inflight, d, c, started, exc, printed, exit >>

\* query_geocode, line 240: the pause before the request.
query_geocode_sleep ==
  /\ pc = "query_geocode"
  /\ log' = Append(log, "pause")
  /\ pc' = "urlopen"
  /\ UNCHANGED << targets, dest0, dirs, results, tmp, created, dest, i, geoResp,
                  inflight, d, c, started, exc, printed, exit >>

\* query_geocode, line 242: the request is sent.
query_geocode_urlopen ==
  /\ pc = "urlopen"
  /\ log' = Append(log, "request")
  /\ inflight' = inflight + 1
  /\ pc' = "read"
  /\ UNCHANGED << targets, dest0, dirs, results, tmp, created, dest, i, geoResp,
                  d, c, started, exc, printed, exit >>

\* query_geocode, lines 242-249, and the writerow of lines 209-217: the
\* response arrives, its `results` are looked up, the address is taken from
\* them and the row is written.
query_geocode_read ==
  /\ pc = "read"
  /\ \E r \in GeoResponses :
       /\ log' = Append(log, "response")
       /\ inflight' = inflight - 1
       /\ geoResp' = Append(geoResp, r)
       /\ IF r.kind = "neterr"
            THEN /\ \E e \in NetworkErrors : Raise(e, "append_csv_and_plots")
                 /\ UNCHANGED << tmp, i >>
            ELSE IF ~query_geocode_result(r.body).ok
              THEN /\ Raise(query_geocode_result(r.body).exc, "append_csv_and_plots")
                   /\ UNCHANGED << tmp, i >>
              ELSE /\ tmp' = [tmp EXCEPT !.csv.rows =
                                writerow(@, CsvRow(results.list[i],
                                                   query_geocode_result(r.body).address))]
                   /\ i' = i + 1
                   /\ pc' = "csv_loop"
                   /\ exc' = exc
  /\ UNCHANGED << targets, dest0, dirs, results, created, dest, d, c, started,
                  printed, exit >>


\* fetch_map_image: build the marker URL, download the image and store it in
\* the staging directory.  The download can fail before the file is opened,
\* and the copy into the file can fail with the file already there.
fetch_map_image ==
  /\ pc = "fetch_map_image"
  /\ started' = Append(started, "fetch_map_image")
  /\ IF IsNone(results)
       THEN /\ Raise(TypeErrorNone, "fetch_map_image")
            /\ UNCHANGED << tmp, created >>
       ELSE \/ /\ tmp' = [tmp EXCEPT !.png =
                            [kind |-> "png", markers |-> Markers(results.list)]]
               /\ created' = created \cup {"png"}
               /\ pc' = "generate_pdf"
               /\ exc' = exc
            \/ /\ \E e \in NetworkErrors : Raise(e, "fetch_map_image")
               /\ UNCHANGED << tmp, created >>
            \/ /\ tmp' = [tmp EXCEPT !.png = Partial]
               /\ created' = created \cup {"png"}
               /\ Raise(OSError, "fetch_map_image")
  /\ UNCHANGED << targets, dest0, dirs, results, dest, i, geoResp, log, inflight,
                  d, c, printed, exit >>

\* generate_pdf, lines 308-407: read the CSV back, build the HTML and write
\* it to the staging directory.
generate_pdf ==
  /\ pc = "generate_pdf"
  /\ started' = Append(started, "generate_pdf")
  /\ \/ /\ tmp' = [tmp EXCEPT !.html = Html(tmp.csv.rows)]
        /\ created' = created \cup {"html"}
        /\ pc' = "from_file"
        /\ exc' = exc
     \/ /\ Raise(OSError, "generate_pdf")
        /\ UNCHANGED << tmp, created >>
  /\ UNCHANGED << targets, dest0, dirs, results, dest, i, geoResp, log, inflight,
                  d, c, printed, exit >>

\* generate_pdf as a version that removes the map image whether or not the
\* conversion succeeded.
generate_pdf_from_file_cleanup ==
  /\ pc = "from_file"
  /\ \/ /\ tmp' = [tmp EXCEPT !.pdf = [kind |-> "pdf", html |-> tmp.html, img |-> tmp.png]]
        /\ created' = created \cup {"pdf"}
        /\ pc' = "unlink_png"
        /\ exc' = exc
     \/ /\ Raise(PdfError, "generate_pdf")
        /\ tmp' = [tmp EXCEPT !.png = Absent]
        /\ created' = created
  /\ UNCHANGED << targets, dest0, dirs, results, dest, i, geoResp, log, inflight,
                  d, c, started, printed, exit >>

\* generate_pdf, lines 410-411: pdfkit converts the HTML, which refers to the
\* map image, to the staging PDF.  A failing conversion may or may not
\* leave a PDF file behind.
generate_pdf_from_file ==
  /\ pc = "from_file"
  /\ \/ /\ tmp' = [tmp EXCEPT !.pdf = [kind |-> "pdf", html |-> tmp.html, img |-> tmp.png]]
        /\ created' = created \cup {"pdf"}
        /\ pc' = "unlink_png"
        /\ exc' = exc
     \/ /\ Raise(PdfError, "generate_pdf")
        /\ \/ UNCHANGED << tmp, created >>
           \/ /\ tmp' = [tmp EXCEPT !.pdf = Partial]
              /\ created' = created \cup {"pdf"}
  /\ UNCHANGED << targets, dest0, dirs, results, dest, i, geoResp, log, inflight,
                  d, c, started, printed, exit >>

\* generate_pdf, line 414: os.unlink(tmp_png_path).
generate_pdf_unlink_png ==
  /\ pc = "unlink_png"
  /\ \/ /\ tmp' = [tmp EXCEPT !.png = Absent]
        /\ pc' = "unlink_html"
        /\ exc' = exc
     \/ /\ Raise(UnlinkError, "generate_pdf")
        /\ tmp' = tmp
  /\ UNCHANGED << targets, dest0, dirs, results, created, dest, i, geoResp, log,
                  inflight, d, c, started, printed, exit >>

\* generate_pdf, lines 415-417: os.unlink(tmp_html_path) and return.
generate_pdf_unlink_html ==
  /\ pc = "unlink_html"
  /\ \/ /\ tmp' = [tmp EXCEPT !.html = Absent]
        /\ pc' = "copy_files_to_destination"
        /\ exc' = exc
     \/ /\ Raise(UnlinkError, "generate_pdf")
        /\ tmp' = tmp
  /\ UNCHANGED << targets, dest0, dirs, results, created, dest, i, geoResp, log,
                  inflight, d, c, started, printed, exit >>

\* copy_files_to_destination, lines 435-438: the head of the loop over the
\* targets.
copy_files_to_destination ==
  /\ pc = "copy_files_to_destination"
  /\ started' = Append(started, "copy_files_to_destination")
  /\ d' = 1
  /\ c' = 1
  /\ pc' = IF NumTargets = 0 THEN "unlink_pdf" ELSE "copy2"
  /\ UNCHANGED << targets, dest0, dirs, results, tmp, created, dest, i, geoResp, log,
                  inflight, exc, printed, exit >>

\* The staging file the c-th copy of a target reads.
CopySource(k) == IF k = 3 THEN "csv" ELSE "pdf"

\* copy2 as a version that removes the staging files when a copy fails.
copy2_cleanup ==
  /\ pc = "copy2"
  /\ \/ /\ dest' = [dest EXCEPT ![d][TargetFiles[c]] = tmp[CopySource(c)]]
        /\ c' = IF c = 3 THEN 1 ELSE c + 1
        /\ d' = IF c = 3 THEN d + 1 ELSE d
        /\ pc' = IF c = 3 /\ d = NumTargets THEN "unlink_pdf" ELSE "copy2"
        /\ exc' = exc
        /\ tmp' = tmp
     \/ /\ \E after \in { dest[d][TargetFiles[c]], Partial } :
             dest' = [dest EXCEPT ![d][TargetFiles[c]] = after]
        /\ Raise(OSError, "copy_files_to_destination")
        /\ tmp' = [tmp EXCEPT !.pdf = Absent, !.csv = Absent]
        /\ UNCHANGED << d, c >>
  /\ UNCHANGED << targets, dest0, dirs, results, created, i, geoResp, log,
                  inflight, started, printed, exit >>

\* copy_files_to_destination, lines 445-447: one shutil.copy2.  A failing
\* copy leaves the target file as it was (it could not be opened) or
\* truncated (the write failed).
copy2 ==
  /\ pc = "copy2"
  /\ \/ /\ dest' = [dest EXCEPT ![d][TargetFiles[c]] = tmp[CopySource(c)]]
        /\ c' = IF c = 3 THEN 1 ELSE c + 1
        /\ d' = IF c = 3 THEN d + 1 ELSE d
        /\ pc' = IF c = 3 /\ d = NumTargets THEN "unlink_pdf" ELSE "copy2"
        /\ exc' = exc
     \/ /\ \E after \in { dest[d][TargetFiles[c]], Partial } :
             dest' = [dest EXCEPT ![d][TargetFiles[c]] = after]
        /\ Raise(OSError, "copy_files_to_destination")
        /\ UNCHANGED << d, c >>
  /\ UNCHANGED << targets, dest0, dirs, results, tmp, created, i, geoResp, log,
                  inflight, started, printed, exit >>

\* copy_files_to_destination as a version that leaves the staging PDF.
copy_unlink_pdf_skipped ==
  /\ pc = "unlink_pdf"
  /\ pc' = "unlink_csv"
  /\ UNCHANGED << targets, dest0, dirs, results, tmp, created, dest, i, geoResp, log,
                  inflight, d, c, started, exc, printed, exit >>

\* copy_files_to_destination, line 450: os.unlink(tmp_pdf_path).
copy_unlink_pdf ==
  /\ pc = "unlink_pdf"
  /\ \/ /\ tmp' = [tmp EXCEPT !.pdf = Absent]
        /\ pc' = "unlink_csv"
        /\ exc' = exc
     \/ /\ Raise(UnlinkError, "copy_files_to_destination")
        /\ tmp' = tmp
  /\ UNCHANGED << targets, dest0, dirs, results, created, dest, i, geoResp, log,
                  inflight, d, c, started, printed, exit >>

\* copy_files_to_destination, line 451: os.unlink(tmp_csv_path); main()
\* returns and the process ends with status 0.
copy_unlink_csv ==
  /\ pc = "unlink_csv"
  /\ \/ /\ tmp' = [tmp EXCEPT !.csv = Absent]
        /\ pc' = "done"
        /\ exit' = 0
        /\ exc' = exc
     \/ /\ Raise(UnlinkError, "copy_files_to_destination")
        /\ UNCHANGED << tmp, exit >>
  /\ UNCHANGED << targets, dest0, dirs, results, created, dest, i, geoResp, log,
                  inflight, d, c, started, printed >>

\* The except clause as one that exits with status 1 after printing.
main_except_exit_1 ==
  /\ pc = "except"
  /\ pc' = "done"
  /\ printed' = IF Len(exc.args) > 0 THEN Append(printed, exc.args[1]) ELSE printed
  /\ exit' = 1
  /\ UNCHANGED << targets, dest0, dirs, results, tmp, created, dest, i, geoResp, log,
                  inflight, d, c, started, exc >>

\* main as a version whose copy step stands after the try block: it runs
\* after the except clause too.
main_except_then_copy ==
  /\ pc = "except"
  /\ printed' = IF Len(exc.args) > 0 THEN Append(printed, exc.args[1]) ELSE printed
  /\ IF exc.stage = "copy_files_to_destination"
       THEN pc' = "done" /\ exit' = 0
       ELSE pc' = "copy_files_to_destination" /\ exit' = exit
  /\ UNCHANGED << targets, dest0, dirs, results, tmp, created, dest, i, geoResp, log,
                  inflight, d, c, started, exc >>

\* main, lines 112-113: the except clause prints e.args[0]; main() returns
\* and the process ends with status 0.  With empty args the print raises an
\* IndexError nothing catches, and the process ends with status 1.
main_except ==
  /\ pc = "except"
  /\ pc' = "done"
  /\ IF Len(exc.args) > 0
       THEN printed' = Append(printed, exc.args[1]) /\ exit' = 0
       ELSE printed' = printed /\ exit' = 1
  /\ UNCHANGED << targets, dest0, dirs, results, tmp, created, dest, i, geoResp, log,
                  inflight, d, c, started, exc >>

Next ==
  \/ verify_paths
  \/ fetch_plot_data
  \/ append_csv_and_plots
  \/ append_csv_and_plots_row
  \/ query_geocode_sleep
  \/ query_geocode_urlopen
  \/ query_geocode_read
  \/ fetch_map_image
  \/ generate_pdf
  \/ generate_pdf_from_file
  \/ generate_pdf_unlink_png
  \/ generate_pdf_unlink_html
  \/ copy_files_to_destination
  \/ copy2
  \/ copy_unlink_pdf
  \/ copy_unlink_csv
  \/ main_except

Spec == Init /\ [][Next]_vars


\* ------------------------------------------------------------- properties
\* append_csv_and_plots has returned: main() stands before fetch_map_image
\* or has entered it.
CsvReturned == pc = "fetch_map_image" \/ Len(started) >= 4

\* A geocode response whose result list is empty.
EmptyResultList(r) ==
  /\ r.kind = "json"
  /\ "results" \in DOMAIN r.body
  /\ "list" \in DOMAIN r.body.results
  /\ Len(r.body.results.list) = 0

\* A geocode response without a `results` key.
NoResultsKey(r) == r.kind = "json" /\ "results" \notin DOMAIN r.body

\* The exception came from a shutil.copy2 / from an os.unlink.
CopyFailed ==
  exc.stage = "copy_files_to_destination" /\ exc.type = "OSError" /\ exc.args = OSError.args
UnlinkFailed == exc.type = "OSError" /\ exc.args = UnlinkError.args

\* Number of entries e in the geocode log.
Count(e) == Cardinality({ k \in DOMAIN log : log[k] = e })

\* Position of a stage in the try block.
StageIndex(s) == CHOOSE k \in DOMAIN Stages : Stages[k] = s

\* C1: once append_csv_and_plots has returned, the staging CSV holds the
\* header row followed by exactly one data row per point, and the k-th data
\* row carries the fields of the k-th point, in the order the fetcher
\* returned them; with no points it holds the header row alone.
C1_CsvRowsInInputOrder ==
  (CsvReturned /\ tmp.csv # Absent) =>
    /\ ~IsNone(results)
    /\ tmp.csv.kind = "csv"
    /\ Len(tmp.csv.rows) = Len(results.list) + 1
    /\ tmp.csv.rows[1] = Header
    /\ \A k \in 1..Len(results.list) :
         LET row == tmp.csv.rows[k + 1]
             pt  == results.list[k]
         IN /\ Len(row) = 7
            /\ row[1] = strftime(ParseTable[pt.Date])
            /\ row[2] = ToString(pt.Latitude)
            /\ row[3] = ToString(pt.Longitude)
            /\ row[4] = pt.Speed
            /\ row[5] = ToString(pt.Accuracy)
            /\ row[6] = pt.Type

\* C1 witness: the CSV of two different points is complete.
C1_Witness ==
  /\ pc = "fetch_map_image"
  /\ ~IsNone(results)
  /\ Len(results.list) = 2
  /\ results.list[1] # results.list[2]
  /\ Len(tmp.csv.rows) = 3

\* C2: a geocode response with an empty result list gives the row of its
\* point an empty Address and does not end the loop: the row is written and
\* the loop moves on, and when append_csv_and_plots returns every point has
\* been geocoded.
C2_EmptyResultGivesEmptyAddress ==
  /\ \A k \in 1..Len(geoResp) :
       EmptyResultList(geoResp[k]) =>
         /\ i > k
         /\ (tmp.csv # Absent => (Len(tmp.csv.rows) > k /\ tmp.csv.rows[k + 1][7] = ""))
  /\ CsvReturned => (~IsNone(results) /\ Len(geoResp) = Len(results.list))

\* C2 witness: the first of two points got an empty result list, the second
\* an address, and both rows are written.
C2_Witness ==
  /\ pc = "fetch_map_image"
  /\ Len(geoResp) = 2
  /\ EmptyResultList(geoResp[1])
  /\ tmp.csv.rows[2][7] = ""
  /\ tmp.csv.rows[3][7] = "123 Main St, Springfield, IL 62701"

\* C3: a geocode response without a `results` key gives the row of its point
\* an empty Address and does not end the run.
C3_MalformedResponseGivesEmptyAddress ==
  \A k \in 1..Len(geoResp) :
    NoResultsKey(geoResp[k]) =>
      /\ i > k
      /\ exc.type # "KeyError"
      /\ (tmp.csv # Absent => (Len(tmp.csv.rows) > k /\ tmp.csv.rows[k + 1][7] = ""))

\* C4: when the tracking response has no Data field the run goes on as with
\* no points: unless an I/O operation fails, every stage runs and every
\* destination receives a report.
C4_NoDataRunsToCompletion ==
  (pc = "done" /\ Len(started) >= 3 /\ IsNone(results)) =>
    \/ exc.type \in { "OSError", "URLError", "MemoryError", "IOError" }
    \/ /\ exc = NoExc
       /\ started = Stages
       /\ \A t \in targets :
            /\ dest[t].named_pdf.kind = "pdf"
            /\ dest[t].today_pdf.kind = "pdf"
            /\ dest[t].named_csv.kind = "csv"

\* C5: after a run in which every stage succeeded, every destination holds
\* the dated PDF, ~Today.pdf and, in its csv subdirectory, the dated CSV;
\* they are the same files in every destination, the PDF being the one
\* rendered from that CSV; and none of the four temp files the run created
\* is left in the staging directory.
C5_SuccessfulRunDistributesAndCleansUp ==
  (pc = "done" /\ exc = NoExc) =>
    /\ exit = 0
    /\ \A t \in targets :
         /\ { << "target", t >>, << "csv", t >> } \subseteq dirs
         /\ dest[t].named_pdf.kind = "pdf"
         /\ dest[t].today_pdf = dest[t].named_pdf
         /\ dest[t].named_csv.kind = "csv"
         /\ dest[t].named_pdf.html = Html(dest[t].named_csv.rows)
         /\ Len(dest[t].named_csv.rows) = Len(results.list) + 1
         /\ \A u \in targets : dest[u] = dest[t]
    /\ created = TmpFiles
    /\ \A f \in TmpFiles : tmp[f] = Absent

\* C5 witness: a successful run with two destinations and two points.
C5_Witness ==
  /\ pc = "done"
  /\ exc = NoExc
  /\ NumTargets = 2
  /\ Len(results.list) = 2
  /\ dest[2].named_csv.kind = "csv"

\* C6: when a copy to destination d fails, the destinations before d hold
\* the three files copied to them, no destination after d has been written,
\* the error has left copy_files_to_destination, and the staging PDF and
\* CSV are still there.
C6_FailedCopyLeavesPartialDistribution ==
  CopyFailed =>
    /\ pc \in { "except", "done" }
    /\ d \in targets
    /\ \A t \in targets :
         /\ t < d => dest[t] = [named_pdf |-> tmp.pdf, today_pdf |-> tmp.pdf,
                                named_csv |-> tmp.csv]
         /\ t > d => dest[t] = dest0[t]
    /\ tmp.pdf.kind = "pdf"
    /\ tmp.csv.kind = "csv"

\* C6 witness: the copy to the second of three destinations failed; the
\* third held an earlier report.
C6_Witness ==
  /\ CopyFailed
  /\ pc = "done"
  /\ NumTargets = 3
  /\ d = 2
  /\ dest[1].named_csv = tmp.csv
  /\ dest0[3].today_pdf = Old

\* C7 as stated: on an error raised by a stage the program prints the error
\* message and exits non-zero, and no later stage runs.
C7_ErrorExitsNonZero ==
  (pc = "done" /\ exc # NoExc) =>
    /\ Len(printed) = 1
    /\ exit # 0
    /\ started = SubSeq(Stages, 1, StageIndex(exc.stage))

\* C7 amended: on an error raised by a stage the except clause prints the
\* error's first argument and the process ends with status 0; only an error
\* without arguments makes the print itself fail, and then nothing is
\* printed and the status is 1.  No later stage runs in either case.
C7_ErrorPrintedAndExitZero ==
  (pc = "done" /\ exc # NoExc) =>
    /\ IF Len(exc.args) > 0
         THEN printed = << exc.args[1] >> /\ exit = 0
         ELSE printed = << >> /\ exit = 1
    /\ started = SubSeq(Stages, 1, StageIndex(exc.stage))

\* C7 witness: the map download failed, the message was printed, the status
\* is 0 and neither generate_pdf nor the copy ran.
C7_Witness ==
  /\ pc = "done"
  /\ exc.stage = "fetch_map_image"
  /\ exc.type = "URLError"
  /\ printed = << "timed out" >>
  /\ exit = 0
  /\ Len(started) = 4

\* C8: every geocode request directly follows its own pause and every pause
\* is directly followed by its request; there are as many pauses as
\* requests, but for the pause whose request is about to be sent; and at
\* most one request is in flight.
C8_PauseBeforeEveryGeocodeRequest ==
  /\ \A k \in DOMAIN log :
       /\ log[k] = "request" => (k > 1 /\ log[k - 1] = "pause")
       /\ (log[k] = "pause" /\ k < Len(log)) => log[k + 1] = "request"
  /\ Count("pause") = Count("request") + (IF pc = "urlopen" THEN 1 ELSE 0)
  /\ Count("request") = Len(geoResp) + inflight
  /\ inflight \in { 0, 1 }
  /\ inflight = 1 <=> pc = "read"

\* C8 witness: the second request is in flight.
C8_Witness ==
  /\ pc = "read"
  /\ Count("request") = 2
  /\ Count("pause") = 2
  /\ inflight = 1

\* The map image and the HTML file are removed only once the PDF has been
\* converted.
CleanupAfterConversion ==
  \A f \in { "png", "html" } :
    (f \in created /\ tmp[f] = Absent) => ("pdf" \in created /\ tmp.pdf # Partial)

\* The staging CSV is there when generate_pdf returns.
CsvKeptByGeneratePdf == pc = "copy_files_to_destination" => tmp.csv.kind = "csv"

\* C9 as stated: the image and the HTML are removed only after the PDF
\* conversion, the CSV is there when generate_pdf returns, and when a stage
\* fails every temp file created so far is still in the staging directory.
C9_FailureLeavesEveryTempFile ==
  /\ CleanupAfterConversion
  /\ CsvKeptByGeneratePdf
  /\ exc # NoExc => \A f \in created : tmp[f] # Absent

\* C9 amended: the image and the HTML are removed only after the PDF
\* conversion, the CSV is there when generate_pdf returns, and a failure
\* leaves every temp file that a cleanup step has not removed before it: a
\* failure up to and including the PDF conversion leaves every temp file
\* created so far; a failed copy leaves the staging PDF and CSV, the image
\* and the HTML having been removed by generate_pdf; a failed unlink leaves
\* the file it was called on and the files whose unlink comes after it.
C9_FailureLeavesFilesNotYetCleaned ==
  /\ CleanupAfterConversion
  /\ CsvKeptByGeneratePdf
  /\ (exc # NoExc /\ ~UnlinkFailed /\ exc.stage # "copy_files_to_destination")
       => \A f \in created : tmp[f] # Absent
  /\ CopyFailed =>
       /\ tmp.pdf.kind = "pdf" /\ tmp.csv.kind = "csv"
       /\ tmp.png = Absent /\ tmp.html = Absent
  /\ (UnlinkFailed /\ exc.stage = "generate_pdf") =>
       /\ tmp.html.kind = "html" /\ tmp.pdf.kind = "pdf" /\ tmp.csv.kind = "csv"
  /\ (UnlinkFailed /\ exc.stage = "copy_files_to_destination") => tmp.csv.kind = "csv"

\* C9 witness: a copy failed after generate_pdf had removed the image and
\* the HTML; the staging PDF and CSV are left.
C9_Witness ==
  /\ CopyFailed
  /\ pc = "done"
  /\ created = TmpFiles
  /\ tmp.png = Absent
  /\ tmp.pdf.kind = "pdf"

\* C10: a report file of a destination differs from what it was before the
\* run only if the track fetch, every geocode call, the CSV, the map
\* download and the PDF conversion of this run have succeeded; a failure
\* before the copy stage leaves every destination as it was.
C10_NoDistributionBeforeSuccess ==
  /\ dest # dest0 =>
       /\ started = Stages
       /\ ~IsNone(results)
       /\ Len(geoResp) = Len(results.list)
       /\ \A k \in 1..Len(geoResp) :
            geoResp[k].kind = "json" /\ "results" \in DOMAIN geoResp[k].body
       /\ created = TmpFiles
       /\ (exc = NoExc \/ exc.stage = "copy_files_to_destination")
  /\ (exc # NoExc /\ exc.stage # "copy_files_to_destination") => dest = dest0

\* C10 witness: the PDF conversion failed and a destination still holds the
\* ~Today.pdf of the earlier run.
C10_Witness ==
  /\ pc = "done"
  /\ exc.stage = "generate_pdf"
  /\ exc.type = "IOError"
  /\ \E t \in targets : dest0[t].today_pdf = Old /\ dest[t].today_pdf = Old

====
